---- MODULE Spec2Model ----
(***************************************************************************)
(* cudf::fp::fixed_point<Rep, Rad> (cpp/include/cudf/fixed_point/           *)
(* fixed_point.hpp): construction, conversion, get(), the four arithmetic  *)
(* operators, operator== and the four overflow predicates.                 *)
(*                                                                         *)
(* Numbers.  Rep is int8_t or int16_t in the narrow instantiations below   *)
(* and int64_t in the wide one.  detail::shift returns a double, because   *)
(* std::pow returns a double.  For the narrow instantiations a double is   *)
(* modelled exactly, as a mixed number ip + fn/fd with fd a power of the   *)
(* radix: for |value| < 2^15 and exponents up to 8 every quotient, sum,    *)
(* truncation and comparison the code performs on IEEE-754 doubles agrees  *)
(* with the exact rational one (the rounding error is below 1e-11 while    *)
(* distinct results differ by at least 1e-8), and value / pow(Rad, -k)     *)
(* equals value * Rad^k exactly for k <= 4.  Within the bounds the int      *)
(* product rounded_val * Rad * scale of get() stays inside 32 bits.  For   *)
(* int64_t the conversion                                                  *)
(* int64_t -> double rounds to 53 significant bits; it is modelled on      *)
(* three 21-bit limbs.                                                     *)
(***************************************************************************)
EXTENDS Integers, Sequences, FiniteSets, TLC

VARIABLES w, rad, checked, ub, pc, in_l, in_r, lhs, rhs, res

vars == <<w, rad, checked, ub, pc, in_l, in_r, lhs, rhs, res>>

\* ---------------------------------------------------------------- bounds
MaxScale == 2

SmallMax == 2

\* ------------------------------------------------------------- constants
BASE_2 == 2

BASE_10 == 10

Radixes == {BASE_2, BASE_10}

\* Rep widths of the narrow instantiations (int8_t, int16_t)
Widths == {8, 16}

\* how the build resolves undefined conversions: an out-of-range
\* double -> integer conversion either keeps the low bits or saturates; an
\* integer division by zero either traps or yields 0
UBModes == {"wrap_trap", "saturate_zero"}

RECURSIVE Pow(_, _)
Pow(b, e) == IF e = 0 THEN 1 ELSE b * Pow(b, e - 1)

\* std::numeric_limits<Rep>::min() / max()
MinRep(bits) == -Pow(2, bits - 1)

MaxRep(bits) == Pow(2, bits - 1) - 1

InRep(bits, x) == MinRep(bits) <= x /\ x <= MaxRep(bits)

Abs(x) == IF x < 0 THEN -x ELSE x

Sign(x) == IF x < 0 THEN -1 ELSE IF x > 0 THEN 1 ELSE 0

\* C++ integer division: truncation toward zero (b # 0)
TruncDiv(a, b) == Sign(a) * Sign(b) * (Abs(a) \div Abs(b))

TruncRem(a, b) == a - b * TruncDiv(a, b)

\* ----------------------------------------------------- doubles (narrow)
\* the double ip + fn/fd, |fn| < fd, fn of the sign of the whole value
DblNorm(i, n, d) ==
    LET i1 == i + TruncDiv(n, d)
        n1 == TruncRem(n, d)
    IN  IF i1 > 0 /\ n1 < 0 THEN [ip |-> i1 - 1, fn |-> n1 + d, fd |-> d]
        ELSE IF i1 < 0 /\ n1 > 0 THEN [ip |-> i1 + 1, fn |-> n1 - d, fd |-> d]
        ELSE [ip |-> i1, fn |-> n1, fd |-> IF n1 = 0 THEN 1 ELSE d]

DblInt(n) == [ip |-> n, fn |-> 0, fd |-> 1]

DblMaxDen(a, b) == IF a.fd >= b.fd THEN a.fd ELSE b.fd

DblAdd(a, b) ==
    LET d == DblMaxDen(a, b)
    IN  DblNorm(a.ip + b.ip, a.fn * (d \div a.fd) + b.fn * (d \div b.fd), d)

DblNeg(a) == [ip |-> -a.ip, fn |-> -a.fn, fd |-> a.fd]

DblSub(a, b) == DblAdd(a, DblNeg(b))

DblLess(a, b) ==
    LET d == DblMaxDen(a, b)
    IN  \/ a.ip < b.ip
        \/ a.ip = b.ip /\ a.fn * (d \div a.fd) < b.fn * (d \div b.fd)

DblEq(a, b) == ~DblLess(a, b) /\ ~DblLess(b, a)

\* double -> integer: the fractional part is discarded
DblTrunc(a) == a.ip

\* --------------------------------------------------------- detail::shift
negate(scale) == -1 * scale

right_shift(Rad, val, scale) == DblNorm(0, val, Pow(Rad, scale))

left_shift(Rad, val, scale) == DblInt(val * Pow(Rad, scale))

\* mutant: the two directions exchanged
shift_swapped(Rad, val, scale) ==
    IF scale >= 0 THEN left_shift(Rad, val, scale)
                  ELSE right_shift(Rad, val, negate(scale))

shift(Rad, val, scale) ==
    IF scale >= 0 THEN right_shift(Rad, val, scale)
                  ELSE left_shift(Rad, val, negate(scale))

\* integer wrapped into Rep: the narrowing conversion int -> Rep
WrapRep(bits, x) == ((x - MinRep(bits)) % Pow(2, bits)) + MinRep(bits)

SatRep(bits, x) ==
    IF x < MinRep(bits) THEN MinRep(bits)
    ELSE IF x > MaxRep(bits) THEN MaxRep(bits) ELSE x

\* double -> Rep: truncation; undefined when the truncated value is outside
\* Rep, resolved as the build does
ToRep(bits, mode, d) ==
    LET t == DblTrunc(d)
    IN  IF InRep(bits, t) THEN t
        ELSE IF mode = "wrap_trap" THEN WrapRep(bits, t) ELSE SatRep(bits, t)

\* --------------------------------------------- fixed_point constructors
\* fixed_point(T const& value, scale_type const& scale)
fixed_point(bits, mode, Rad, value, scale) ==
    [value |-> ToRep(bits, mode, shift(Rad, value, scale)), scale |-> scale]

\* fixed_point(scaled_integer<Rep> s)
fixed_point_scaled(value, scale) == [value |-> value, scale |-> scale]

\* explicit operator U() for U = Rep
to_rep(bits, mode, Rad, fp) ==
    ToRep(bits, mode, shift(Rad, fp.value, negate(fp.scale)))

\* explicit operator U() for U = double
to_double(Rad, fp) == shift(Rad, fp.value, negate(fp.scale))

\* ---------------------------------------------------- fixed_point::get
\* _value / std::pow(Rad, underlying_scale), as a double
get_quotient(Rad, fp) ==
    IF fp.scale >= 0 THEN right_shift(Rad, fp.value, fp.scale)
                     ELSE DblInt(fp.value * Pow(Rad, -fp.scale))

\* int const rounded_val
rounded_val(Rad, fp) == DblTrunc(get_quotient(Rad, fp))

\* bool const needs_floating_point
needs_floating_point(Rad, fp) == rounded_val(Rad, fp) * Rad * fp.scale # fp.value

\* the value get() returns (a double on either path)
get(bits, mode, Rad, fp) ==
    IF needs_floating_point(Rad, fp) THEN to_double(Rad, fp)
                                     ELSE DblInt(to_rep(bits, mode, Rad, fp))

\* --------------------------------------------------- overflow predicates
\* the bound the predicate computes before comparing
addition_bound(bits, r) ==
    IF DblLess(DblInt(0), r) THEN DblSub(DblInt(MaxRep(bits)), r)
                             ELSE DblSub(DblInt(MinRep(bits)), r)

addition_overflow(bits, l, r) ==
    IF DblLess(DblInt(0), r) THEN DblLess(addition_bound(bits, r), l)
                             ELSE DblLess(l, addition_bound(bits, r))

subtraction_bound(bits, r) ==
    IF DblLess(DblInt(0), r) THEN DblAdd(DblInt(MinRep(bits)), r)
                             ELSE DblAdd(DblInt(MaxRep(bits)), r)

subtraction_overflow(bits, l, r) ==
    IF DblLess(DblInt(0), r) THEN DblLess(l, subtraction_bound(bits, r))
                             ELSE DblLess(subtraction_bound(bits, r), l)

division_overflow(bits, l, r) == l = MinRep(bits) /\ r = -1

\* the quotients max / rhs and min / rhs the predicate computes
multiplication_bounds(bits, r) ==
    IF r > 0 \/ r < -1
    THEN {TruncDiv(MaxRep(bits), r), TruncDiv(MinRep(bits), r)}
    ELSE {}

\* mutant: the min * -1 case is not detected
multiplication_overflow_nomin(bits, l, r) ==
    IF r > 0 THEN \/ l > TruncDiv(MaxRep(bits), r)
                  \/ l < TruncDiv(MinRep(bits), r)
    ELSE IF r < -1 THEN \/ l > TruncDiv(MinRep(bits), r)
                        \/ l < TruncDiv(MaxRep(bits), r)
    ELSE FALSE

multiplication_overflow(bits, l, r) ==
    IF r > 0 THEN \/ l > TruncDiv(MaxRep(bits), r)
                  \/ l < TruncDiv(MinRep(bits), r)
    ELSE IF r < -1 THEN \/ l > TruncDiv(MinRep(bits), r)
                        \/ l < TruncDiv(MaxRep(bits), r)
    ELSE r = -1 /\ l = MinRep(bits)

\* ----------------------------------------------------------- operators
\* auto const rhsv / lhsv / scale of operator+ and operator-
aligned_rhs(Rad, a, b) ==
    IF a.scale > b.scale THEN shift(Rad, b.value, a.scale - b.scale)
                         ELSE DblInt(b.value)

\* mutant: lhs is never shifted
aligned_lhs_unshifted(Rad, a, b) == DblInt(a.value)

aligned_lhs(Rad, a, b) ==
    IF a.scale < b.scale THEN shift(Rad, a.value, b.scale - a.scale)
                         ELSE DblInt(a.value)

result_scale(a, b) == IF a.scale > b.scale THEN a.scale ELSE b.scale

Failed(o) == [op |-> o, err |-> "overflow"]

Trapped(o) == [op |-> o, err |-> "trap"]

Returned(o, v, s) == [op |-> o, err |-> "none", value |-> v, scale |-> s]

plus(bits, mode, chk, Rad, a, b) ==
    LET rhsv == aligned_rhs(Rad, a, b)
        lhsv == aligned_lhs(Rad, a, b)
    IN  IF chk /\ addition_overflow(bits, lhsv, rhsv) THEN Failed("+")
        ELSE Returned("+", ToRep(bits, mode, DblAdd(lhsv, rhsv)),
                      result_scale(a, b))

minus(bits, mode, chk, Rad, a, b) ==
    LET rhsv == aligned_rhs(Rad, a, b)
        lhsv == aligned_lhs(Rad, a, b)
    IN  IF chk /\ subtraction_overflow(bits, lhsv, rhsv) THEN Failed("-")
        ELSE Returned("-", ToRep(bits, mode, DblSub(lhsv, rhsv)),
                      result_scale(a, b))

\* mutant: the scales are subtracted
times_subscale(bits, chk, a, b) ==
    IF chk /\ multiplication_overflow(bits, a.value, b.value) THEN Failed("*")
    ELSE Returned("*", WrapRep(bits, a.value * b.value), a.scale - b.scale)

\* the product is formed in int and narrowed to Rep
times(bits, chk, a, b) ==
    IF chk /\ multiplication_overflow(bits, a.value, b.value) THEN Failed("*")
    ELSE Returned("*", WrapRep(bits, a.value * b.value), a.scale + b.scale)

divide(bits, mode, chk, a, b) ==
    IF chk /\ division_overflow(bits, a.value, b.value) THEN Failed("/")
    ELSE IF b.value = 0
         THEN IF mode = "wrap_trap" THEN Trapped("/")
              ELSE Returned("/", 0, a.scale - b.scale)
    ELSE Returned("/", WrapRep(bits, TruncDiv(a.value, b.value)),
                  a.scale - b.scale)

equal(bits, mode, Rad, a, b) ==
    DblEq(get(bits, mode, Rad, a), get(bits, mode, Rad, b))

\* ------------------------------------------------------ inputs (narrow)
Scales == (-MaxScale)..MaxScale

\* boundary and small values of Rep, and the 125 of the documented example
SampleValues(bits) ==
    {MinRep(bits), MinRep(bits) \div 2, -(MinRep(bits) \div 2), MaxRep(bits), 125}
        \cup ((-SmallMax)..SmallMax)

NativeValues == {0, 1, 125}

\* every pair of int8_t; boundary values of int16_t
OvfValues(bits) ==
    IF bits = 8 THEN MinRep(bits)..MaxRep(bits)
    ELSE {MinRep(bits), MinRep(bits) + 1, MinRep(bits) \div 2,
          -(MinRep(bits) \div 2), MaxRep(bits) - 1, MaxRep(bits), 181, -181, 182}
            \cup ((-SmallMax)..SmallMax)

Native(v, s) == [kind |-> "native", v |-> v, s |-> s]

Scaled(v, s) == [kind |-> "scaled", v |-> v, s |-> s]

Raw(v) == [kind |-> "raw", v |-> v, s |-> 0]

NoFP == [value |-> 0, scale |-> 0]

NoRes == [op |-> "none"]

\* the constructor an input selects
Build(bits, mode, Rad, in) ==
    IF in.kind = "native" THEN fixed_point(bits, mode, Rad, in.v, in.s)
                          ELSE fixed_point_scaled(in.v, in.s)

\* ------------------------------------------------------------- actions
Construct ==
    /\ pc = "start"
    /\ lhs' = Build(w, ub, rad, in_l)
    /\ rhs' = Build(w, ub, rad, in_r)
    /\ pc' = "ready"
    /\ UNCHANGED <<w, rad, checked, ub, in_l, in_r, res>>

Finish(r) ==
    /\ pc = "ready"
    /\ res' = r
    /\ pc' = "done"
    /\ UNCHANGED <<w, rad, checked, ub, in_l, in_r, lhs, rhs>>

Plus == Finish(plus(w, ub, checked, rad, lhs, rhs))

Minus == Finish(minus(w, ub, checked, rad, lhs, rhs))

Times == Finish(times(w, checked, lhs, rhs))

Divide == Finish(divide(w, ub, checked, lhs, rhs))

Equal == Finish([op |-> "==", eq |-> equal(w, ub, rad, lhs, rhs)])

ConvertRep == Finish([op |-> "to", value |-> to_rep(w, ub, rad, lhs)])

Get ==
    Finish([op |-> "get",
            needs_floating_point |-> needs_floating_point(rad, lhs),
            value |-> get(w, ub, rad, lhs)])

Predicate(o, ovf, tmp) ==
    /\ pc = "start"
    /\ in_l.kind = "raw"
    /\ res' = [op |-> o, overflow |-> ovf, tmp |-> tmp]
    /\ pc' = "done"
    /\ UNCHANGED <<w, rad, checked, ub, in_l, in_r, lhs, rhs>>

AdditionOverflow ==
    Predicate("addition_overflow",
              addition_overflow(w, DblInt(in_l.v), DblInt(in_r.v)),
              {DblTrunc(addition_bound(w, DblInt(in_r.v)))})

SubtractionOverflow ==
    Predicate("subtraction_overflow",
              subtraction_overflow(w, DblInt(in_l.v), DblInt(in_r.v)),
              {DblTrunc(subtraction_bound(w, DblInt(in_r.v)))})

MultiplicationOverflow ==
    Predicate("multiplication_overflow",
              multiplication_overflow(w, in_l.v, in_r.v),
              multiplication_bounds(w, in_r.v))

DivisionOverflow ==
    Predicate("division_overflow", division_overflow(w, in_l.v, in_r.v), {})

\* ------------------------------------------------------ specifications
Build0 ==
    /\ w \in Widths
    /\ rad \in Radixes
    /\ ub \in UBModes
    /\ pc = "start"
    /\ lhs = NoFP
    /\ rhs = NoFP
    /\ res = NoRes

\* two operands, each built by either constructor, then one operator
Init ==
    /\ Build0
    /\ checked \in BOOLEAN
    /\ in_l \in {Native(v, s) : v \in NativeValues, s \in Scales}
                  \cup {Scaled(v, s) : v \in SampleValues(w), s \in Scales}
    /\ in_r \in {Native(v, s) : v \in NativeValues, s \in Scales}
                  \cup {Scaled(v, s) : v \in SampleValues(w), s \in Scales}

Next == Construct \/ Plus \/ Minus \/ Times \/ Divide \/ Equal

Spec == Init /\ [][Next]_vars

\* one value, built by either constructor, then converted
InitConv ==
    /\ Build0
    /\ checked = FALSE
    /\ in_l \in {Native(v, s) : v \in SampleValues(w), s \in Scales}
                  \cup {Scaled(v, s) : v \in SampleValues(w), s \in Scales}
    /\ in_r = Scaled(0, 0)

NextConv == Construct \/ ConvertRep \/ Get

SpecConv == InitConv /\ [][NextConv]_vars

\* the overflow predicates on bare operand values
InitOvf ==
    /\ w \in Widths
    /\ rad = BASE_10
    /\ ub = "wrap_trap"
    /\ checked = TRUE
    /\ pc = "start"
    /\ lhs = NoFP
    /\ rhs = NoFP
    /\ res = NoRes
    /\ in_l \in {Raw(v) : v \in OvfValues(w)}
    /\ in_r \in {Raw(v) : v \in OvfValues(w)}

NextOvf ==
    \/ AdditionOverflow
    \/ SubtractionOverflow
    \/ MultiplicationOverflow
    \/ DivisionOverflow

SpecOvf == InitOvf /\ [][NextOvf]_vars

\* ------------------------------------------------- Rep = int64_t, scale 0
\* An int64_t, and a double holding an integer, is sign and magnitude on
\* three limbs: hi * 2^42 + mid * 2^21 + lo.
LimbBase == Pow(2, 21)

WInt(n, h, m, l) == [neg |-> n, hi |-> h, mid |-> m, lo |-> l]

WZero == WInt(FALSE, 0, 0, 0)

WSmall(n) == WInt(n < 0, 0, 0, Abs(n))

\* 2^53 + k and -(2^53 + k), 0 <= k < 2^21
WBig(k) == WInt(FALSE, Pow(2, 11), 0, k)

WNeg(a) == IF a = WZero THEN a ELSE [a EXCEPT !.neg = ~a.neg]

\* std::numeric_limits<int64_t>::max() / min()
WMax == WInt(FALSE, LimbBase - 1, LimbBase - 1, LimbBase - 1)

WMin == WInt(TRUE, LimbBase, 0, 0)

WIsZero(a) == a.hi = 0 /\ a.mid = 0 /\ a.lo = 0

\* carries propagated, zero unsigned
WCanon(n, h, m, l) ==
    LET m1 == m + (l \div LimbBase)
        h1 == h + (m1 \div LimbBase)
        z  == h1 = 0 /\ m1 % LimbBase = 0 /\ l % LimbBase = 0
    IN  WInt(n /\ ~z, h1, m1 % LimbBase, l % LimbBase)

WMagLess(a, b) ==
    \/ a.hi < b.hi
    \/ a.hi = b.hi /\ a.mid < b.mid
    \/ a.hi = b.hi /\ a.mid = b.mid /\ a.lo < b.lo

\* |a| - |b| for |a| >= |b|, with the sign n
WMagSub(n, a, b) ==
    LET l  == a.lo - b.lo
        bl == IF l < 0 THEN 1 ELSE 0
        m  == a.mid - b.mid - bl
        bm == IF m < 0 THEN 1 ELSE 0
    IN  WCanon(n, a.hi - b.hi - bm, m + bm * LimbBase, l + bl * LimbBase)

\* the exact sum
WAdd(a, b) ==
    IF a.neg = b.neg THEN WCanon(a.neg, a.hi + b.hi, a.mid + b.mid, a.lo + b.lo)
    ELSE IF WMagLess(a, b) THEN WMagSub(b.neg, b, a)
    ELSE WMagSub(a.neg, a, b)

WLess(a, b) ==
    IF a.neg /\ ~b.neg THEN TRUE
    ELSE IF ~a.neg /\ b.neg THEN FALSE
    ELSE IF a.neg THEN WMagLess(b, a) ELSE WMagLess(a, b)

RECURSIVE BitLen(_)
BitLen(n) == IF n = 0 THEN 0 ELSE 1 + BitLen(n \div 2)

WBitLen(a) ==
    IF a.hi > 0 THEN 42 + BitLen(a.hi)
    ELSE IF a.mid > 0 THEN 21 + BitLen(a.mid) ELSE BitLen(a.lo)

\* significand bits of an IEEE-754 double
DoubleDigits == 53

\* integer -> double, and the rounding of an exact double result: round to
\* nearest, ties to even, on DoubleDigits significant bits
WRound(a) ==
    LET n == WBitLen(a)
    IN  IF n <= DoubleDigits THEN a
        ELSE LET m    == Pow(2, n - DoubleDigits)
                 q    == a.lo \div m
                 r    == a.lo % m
                 half == m \div 2
                 up   == IF r > half \/ (r = half /\ q % 2 = 1) THEN 1 ELSE 0
             IN  WCanon(a.neg, a.hi, a.mid, (q + up) * m)

WInRep(a) == a.hi < LimbBase \/ a = WMin

\* double -> int64_t; out of range is undefined: the x86 conversion yields
\* the integer indefinite value (min), a folded conversion saturates
to_rep64(mode, d) ==
    IF WInRep(d) THEN d
    ELSE IF mode = "wrap_trap" \/ d.neg THEN WMin ELSE WMax

\* detail::shift<Rad>(val, scale_type{0}): val is converted to double and
\* divided by std::pow(Rad, 0) = 1.0
shift64(val) == WRound(val)

\* fixed_point(T const& value, scale_type const& scale), scale = 0
fixed_point64(mode, value) == [value |-> to_rep64(mode, shift64(value)), scale |-> 0]

\* explicit operator U() for U = int64_t, _scale = 0
to_rep_from64(mode, fp) == to_rep64(mode, shift64(fp.value))

\* explicit operator U() for U = double, _scale = 0
to_double64(fp) == shift64(fp.value)

\* get() with _scale = 0: rounded_val * Rad * 0 is 0 whatever rounded_val is
needs_floating_point64(fp) == ~WIsZero(fp.value)

get64(mode, fp) ==
    IF needs_floating_point64(fp) THEN to_double64(fp)
                                  ELSE WRound(to_rep_from64(mode, fp))

\* addition_overflow<int64_t>(double, double): the limits are converted to
\* double before the subtraction
addition_overflow64(l, r) ==
    IF WLess(WZero, r) THEN WLess(WRound(WAdd(WRound(WMax), WNeg(r))), l)
                       ELSE WLess(l, WRound(WAdd(WRound(WMin), WNeg(r))))

subtraction_overflow64(l, r) ==
    IF WLess(WZero, r) THEN WLess(l, WRound(WAdd(WRound(WMin), r)))
                       ELSE WLess(WRound(WAdd(WRound(WMax), r)), l)

\* operator+ and operator- on operands of equal scale: neither is shifted,
\* both are converted to double
plus64(mode, chk, a, b) ==
    LET rhsv == WRound(b.value)
        lhsv == WRound(a.value)
    IN  IF chk /\ addition_overflow64(lhsv, rhsv) THEN Failed("+")
        ELSE Returned("+", to_rep64(mode, WRound(WAdd(lhsv, rhsv))), a.scale)

minus64(mode, chk, a, b) ==
    LET rhsv == WRound(b.value)
        lhsv == WRound(a.value)
    IN  IF chk /\ subtraction_overflow64(lhsv, rhsv) THEN Failed("-")
        ELSE Returned("-", to_rep64(mode, WRound(WAdd(lhsv, WNeg(rhsv)))), a.scale)

equal64(mode, a, b) == get64(mode, a) = get64(mode, b)

WideSpan == 3

WideValues ==
    {WBig(k) : k \in 0..WideSpan} \cup {WNeg(WBig(k)) : k \in 0..WideSpan}
        \cup {WZero, WSmall(1), WSmall(-1), WMax, WMin, WNeg(WMax)}

Build64(mode, in) ==
    IF in.kind = "native" THEN fixed_point64(mode, in.v)
                          ELSE fixed_point_scaled(in.v, in.s)

Construct64 ==
    /\ pc = "start"
    /\ lhs' = Build64(ub, in_l)
    /\ rhs' = Build64(ub, in_r)
    /\ pc' = "ready"
    /\ UNCHANGED <<w, rad, checked, ub, in_l, in_r, res>>

Plus64 == Finish(plus64(ub, checked, lhs, rhs))

Minus64 == Finish(minus64(ub, checked, lhs, rhs))

Equal64 == Finish([op |-> "==", eq |-> equal64(ub, lhs, rhs)])

ConvertRep64 == Finish([op |-> "to", value |-> to_rep_from64(ub, lhs)])

InitWide ==
    /\ w = 64
    /\ rad \in Radixes
    /\ ub \in UBModes
    /\ checked \in BOOLEAN
    /\ pc = "start"
    /\ lhs = NoFP
    /\ rhs = NoFP
    /\ res = NoRes
    /\ in_l \in {Native(v, 0) : v \in WideValues} \cup {Scaled(v, 0) : v \in WideValues}
    /\ in_r \in {Native(v, 0) : v \in WideValues} \cup {Scaled(v, 0) : v \in WideValues}

NextWide == Construct64 \/ Plus64 \/ Minus64 \/ Equal64 \/ ConvertRep64

SpecWide == InitWide /\ [][NextWide]_vars

\* ============================================================ properties
Done(o) == pc = "done" /\ res.op = o

\* v is exactly representable at scale s
ExactlyRepresentable(bits, Rad, v, s) ==
    /\ s > 0 => v % Pow(Rad, s) = 0
    /\ s < 0 => InRep(bits, v * Pow(Rad, -s))

\* v = u * Rad^e
Denotes(Rad, u, e, v) ==
    IF e >= 0 THEN v = u * Pow(Rad, e) ELSE u = v * Pow(Rad, -e)

\* the operand of smaller scale divided by Rad^d as an integer of Rep
IntAligned(Rad, a, b) ==
    IF a.scale < b.scale THEN TruncDiv(a.value, Pow(Rad, b.scale - a.scale))
                         ELSE a.value

MaxOf(x, y) == IF x > y THEN x ELSE y

\* the represented number of (u, s) in lowest terms: no factor Rad left in u
RECURSIVE Lowest(_, _, _)
Lowest(Rad, u, s) ==
    IF u = 0 THEN <<0, 0>>
    ELSE IF u % Rad = 0 THEN Lowest(Rad, u \div Rad, s + 1)
    ELSE <<u, s>>

\* C1 (Rep = int64_t, scale 0, where every v is exactly representable):
\* constructing a fixed_point from (v, s) and converting it back to the
\* native integer type returns exactly v.
C1_RoundTrip ==
    (Done("to") /\ in_l.kind = "native") => res.value = in_l.v

\* the same round trip for Rep = int8_t and int16_t
RoundTripNarrow ==
    (Done("to") /\ in_l.kind = "native"
        /\ ExactlyRepresentable(w, rad, in_l.v, in_l.s)) => res.value = in_l.v

C3_Alignment ==
    LET l == IntAligned(rad, lhs, rhs)
        r == IntAligned(rad, rhs, lhs)
        e == IF res.op = "+" THEN l + r ELSE l - r
    IN  (pc = "done" /\ res.op \in {"+", "-"} /\ res.err = "none" /\ InRep(w, e))
        => /\ res.scale = MaxOf(lhs.scale, rhs.scale)
           /\ res.value = e

C5_CheckedExact ==
    LET e == IF res.op = "+" THEN WAdd(lhs.value, rhs.value)
                             ELSE WAdd(lhs.value, WNeg(rhs.value))
    IN  (pc = "done" /\ checked /\ res.op \in {"+", "-"})
        => \/ res.err = "overflow"
           \/ res.err = "none" /\ res.value = e /\ WInRep(e)

\* the same for Rep = int8_t and int16_t and all four operators: the value
\* returned is the unwrapped result of combining the aligned operands
CheckedExactNarrow ==
    LET l == aligned_lhs(rad, lhs, rhs)
        r == aligned_rhs(rad, lhs, rhs)
        e == CASE res.op = "+" -> DblTrunc(DblAdd(l, r))
               [] res.op = "-" -> DblTrunc(DblSub(l, r))
               [] res.op = "*" -> lhs.value * rhs.value
               [] res.op = "/" -> TruncDiv(lhs.value, rhs.value)
    IN  (pc = "done" /\ checked /\ res.op \in {"+", "-", "*", "/"}
            /\ ~(res.op = "/" /\ rhs.value = 0))
        => \/ res.err = "overflow"
           \/ res.err = "none" /\ res.value = e /\ InRep(w, e)

DivMinByMinusOneNarrow ==
    (Done("/") /\ checked /\ lhs = [value |-> MinRep(w), scale |-> 0]
        /\ rhs = [value |-> -1, scale |-> 0]) => res.err = "overflow"

C7_ValueEquality ==
    Done("==") => (res.eq <=> lhs.value = rhs.value)

\* C8: when the unscaled product fits Rep, a * b has unscaled value
\* a.value * b.value, scale a.scale + b.scale, and represents the product of
\* the numbers a and b represent.
C8_Multiplication ==
    LET p  == lhs.value * rhs.value
        la == Lowest(rad, lhs.value, lhs.scale)
        lb == Lowest(rad, rhs.value, rhs.scale)
    IN  (Done("*") /\ InRep(w, p))
        => /\ res.err = "none"
           /\ res.value = p
           /\ res.scale = lhs.scale + rhs.scale
           /\ Lowest(rad, res.value, res.scale)
                = Lowest(rad, la[1] * lb[1], la[2] + lb[2])

C8_Witness ==
    /\ Done("*") /\ res.err = "none"
    /\ lhs = [value |-> 2, scale |-> 1]
    /\ rhs = [value |-> MinRep(w) \div 2, scale |-> -2]
    /\ res.value = MinRep(w) /\ res.scale = -1

\* C9: get() takes the integer path exactly when the candidate
\* unscaled_value / Radix^scale, re-expanded by Radix^scale, reproduces
\* unscaled_value.
C9_BestRepresentation ==
    LET c == rounded_val(rad, lhs)
        reexpands == IF lhs.scale >= 0
                     THEN c * Pow(rad, lhs.scale) = lhs.value
                     ELSE c = lhs.value * Pow(rad, -lhs.scale)
    IN  Done("get") => (~res.needs_floating_point <=> reexpands)

\* C10 (Rep = int64_t): x + Z, Z built from native 0 at the scale of x, has
\* the unscaled value and the scale of x and compares equal to x.
C10_AdditionIdentity ==
    (Done("+") /\ in_r = Native(WZero, lhs.scale))
    => /\ res.err = "none"
       /\ res.value = lhs.value
       /\ res.scale = lhs.scale
       /\ equal64(ub, [value |-> res.value, scale |-> res.scale], lhs)

\* the same for Rep = int8_t and int16_t
AdditionIdentityNarrow ==
    (Done("+") /\ in_r = Native(0, lhs.scale))
    => /\ res.err = "none"
       /\ res.value = lhs.value
       /\ res.scale = lhs.scale
       /\ equal(w, ub, rad, [value |-> res.value, scale |-> res.scale], lhs)

====
